---- MODULE Spec2Model ----
(***************************************************************************)
(* XDM1041 multimeter front end (main.py): the SCPI poll cycle driven by   *)
(* the 500 ms Qt timer, the rolling 60-second history behind the plot, and *)
(* the shutdown handler.                                                   *)
(*                                                                         *)
(* Python strings are tuples of one-character strings, so that startswith, *)
(* strip, upper, float() and the .3f formatting are computed character by  *)
(* character.  A float is the record [m |-> mantissa, e |-> exponent]      *)
(* standing for m * 10^e with m not divisible by 10 (or m = 0, e = 0);     *)
(* None is the record [none |-> TRUE].  Times are whole seconds.           *)
(***************************************************************************)
EXTENDS Integers, Sequences, FiniteSets, TLC

(***************************************************************************)
(* Bounds of the model.                                                    *)
(***************************************************************************)
\* timer ticks explored on the endurance bench
MaxCyclesEndurance == 5

\* timer ticks explored on the manipulation bench
MaxCyclesManipulation == 2

(***************************************************************************)
(* Program constants.                                                      *)
(***************************************************************************)
\* ser.read(128)
READ_SIZE == 128

\* the history keeps temps - 60
HORIZON == 60

\* f"{val:.3f}"
DECIMALS == 3

None == [none |-> TRUE]

(***************************************************************************)
(* str methods used by the program.                                        *)
(***************************************************************************)
Min2(a, b) == IF a < b THEN a ELSE b

startswith(s, p) == Len(s) >= Len(p) /\ SubSeq(s, 1, Len(p)) = p

Whitespace == {" ", "\t", "\n", "\r"}

RECURSIVE lstrip(_, _)
lstrip(s, chars) ==
    IF s # <<>> /\ Head(s) \in chars THEN lstrip(Tail(s), chars) ELSE s

RECURSIVE rstrip(_, _)
rstrip(s, chars) ==
    IF s # <<>> /\ s[Len(s)] \in chars
    THEN rstrip(SubSeq(s, 1, Len(s) - 1), chars)
    ELSE s

strip(s, chars) == rstrip(lstrip(s, chars), chars)

LowerCase == <<"a", "b", "c", "d", "e", "f", "g", "h", "i", "j", "k", "l", "m", "n", "o", "p", "q", "r", "s", "t", "u", "v", "w", "x", "y", "z">>
UpperCase == <<"A", "B", "C", "D", "E", "F", "G", "H", "I", "J", "K", "L", "M", "N", "O", "P", "Q", "R", "S", "T", "U", "V", "W", "X", "Y", "Z">>

upper(s) ==
    [i \in 1..Len(s) |->
        IF \E k \in 1..26 : LowerCase[k] = s[i]
        THEN UpperCase[CHOOSE k \in 1..26 : LowerCase[k] = s[i]]
        ELSE s[i]]

(***************************************************************************)
(* bytes.decode(errors='backslashreplace'): an ASCII byte is its           *)
(* character; the byte 0xff, written "<ff>", cannot start a UTF-8 sequence *)
(* and is replaced by the four characters \xff.                            *)
(***************************************************************************)
RECURSIVE decode(_)
decode(bytes) ==
    IF bytes = <<>> THEN <<>>
    ELSE (IF Head(bytes) = "<ff>" THEN <<"\\", "x", "f", "f">> ELSE <<Head(bytes)>>)
         \o decode(Tail(bytes))

(***************************************************************************)
(* envoyer_commande, after the write: read at most 128 bytes of what the   *)
(* device answered within the timeout, decode, strip.                      *)
(***************************************************************************)
lire_reponse(bytes) ==
    strip(decode(SubSeq(bytes, 1, Min2(Len(bytes), READ_SIZE))), Whitespace)

(***************************************************************************)
(* float(str), for the decimal notation                                    *)
(*     [+-] digits [. digits] [(e|E) [+-] digits]   (a digit before or     *)
(* after the point).  float() also accepts inf, nan, underscores and       *)
(* surrounding blanks; no reply of the model uses those.                   *)
(***************************************************************************)
Digits == <<"0", "1", "2", "3", "4", "5", "6", "7", "8", "9">>

IsDigit(c) == \E k \in 1..10 : Digits[k] = c

DigitVal(c) == (CHOOSE k \in 1..10 : Digits[k] = c) - 1

AllDigits(s) == \A i \in 1..Len(s) : IsDigit(s[i])

RECURSIVE ParseNat(_)
ParseNat(s) ==
    IF s = <<>> THEN 0
    ELSE 10 * ParseNat(SubSeq(s, 1, Len(s) - 1)) + DigitVal(s[Len(s)])

RECURSIVE Pow10(_)
Pow10(n) == IF n <= 0 THEN 1 ELSE 10 * Pow10(n - 1)

RECURSIVE Normalise(_, _)
Normalise(m, e) ==
    IF m = 0 THEN [m |-> 0, e |-> 0]
    ELSE IF m % 10 = 0 THEN Normalise(m \div 10, e + 1)
    ELSE [m |-> m, e |-> e]

\* index of the first character of s that is in chars, 0 when there is none
Find(s, chars) ==
    IF \E i \in 1..Len(s) : s[i] \in chars
    THEN CHOOSE i \in 1..Len(s) :
            s[i] \in chars /\ \A j \in 1..(i - 1) : s[j] \notin chars
    ELSE 0

Unsigned(s) == IF s # <<>> /\ Head(s) \in {"+", "-"} THEN Tail(s) ELSE s

Sign(s) == IF s # <<>> /\ Head(s) = "-" THEN -1 ELSE 1

\* float(s), or the record [error |-> "ValueError"]
ValueError == [error |-> "ValueError"]

float(s) ==
    LET ePos  == Find(s, {"e", "E"})
        mant  == IF ePos = 0 THEN s ELSE SubSeq(s, 1, ePos - 1)
        expo  == IF ePos = 0 THEN <<>> ELSE SubSeq(s, ePos + 1, Len(s))
        body  == Unsigned(mant)
        dot   == Find(body, {"."})
        whole == IF dot = 0 THEN body ELSE SubSeq(body, 1, dot - 1)
        frac  == IF dot = 0 THEN <<>> ELSE SubSeq(body, dot + 1, Len(body))
        expOk == ePos = 0 \/ (Unsigned(expo) # <<>> /\ AllDigits(Unsigned(expo)))
        ok    == /\ AllDigits(whole) /\ AllDigits(frac)
                 /\ Len(whole) + Len(frac) > 0
                 /\ expOk
    IN  IF ok
        THEN Normalise(Sign(mant) * ParseNat(whole \o frac),
                       (IF ePos = 0 THEN 0 ELSE Sign(expo) * ParseNat(Unsigned(expo)))
                           - Len(frac))
        ELSE ValueError

(***************************************************************************)
(* f"{val:.3f}": the decimal digits of val rounded to three decimals.      *)
(***************************************************************************)
RECURSIVE NatToStr(_)
NatToStr(n) ==
    IF n < 10 THEN <<Digits[n + 1]>>
    ELSE NatToStr(n \div 10) \o <<Digits[(n % 10) + 1]>>

\* n written with exactly w digits
RECURSIVE Padded(_, _)
Padded(n, w) ==
    IF w = 0 THEN <<>> ELSE Padded(n \div 10, w - 1) \o <<Digits[(n % 10) + 1]>>

Abs(n) == IF n < 0 THEN -n ELSE n

\* |val| in units of 10^-DECIMALS, rounded half to even
Scaled(val) ==
    LET a == Abs(val.m)
        k == -(val.e + DECIMALS)
        q == a \div Pow10(k)
        r == a % Pow10(k)
    IN  IF k <= 0 THEN a * Pow10(-k)
        ELSE IF 2 * r > Pow10(k) \/ (2 * r = Pow10(k) /\ q % 2 = 1) THEN q + 1
        ELSE q

format_3f(val) ==
    LET unit == Pow10(DECIMALS)
        whole == IF val.e >= 0 THEN Abs(val.m) * Pow10(val.e)
                 ELSE Scaled(val) \div unit
        frac  == IF val.e >= 0 THEN 0 ELSE Scaled(val) % unit
    IN  (IF val.m < 0 THEN <<"-">> ELSE <<>>)
        \o NatToStr(whole) \o <<".">> \o Padded(frac, DECIMALS)

(***************************************************************************)
(* formater_mesure and extraire_float.                                     *)
(***************************************************************************)
OVERLOAD == <<"1", "E", "+", "9">>

SURCHARGE == <<"S", "u", "r", "c", "h", "a", "r", "g", "e">>

formater_mesure(valeur, unite) ==
    IF startswith(valeur, OVERLOAD) THEN SURCHARGE
    ELSE IF float(valeur) = ValueError THEN valeur
    ELSE format_3f(float(valeur)) \o <<" ">> \o unite

\* faulty variant: the overload sentinel is parsed like any number
extraire_float_sans_sentinelle(valeur) ==
    IF float(valeur) = ValueError THEN None ELSE float(valeur)

extraire_float(valeur) ==
    IF startswith(valeur, OVERLOAD) THEN None
    ELSE IF float(valeur) = ValueError THEN None
    ELSE float(valeur)

(***************************************************************************)
(* The lookup tables, as sets of <<key, value>>, and dict.get.             *)
(***************************************************************************)
unites ==
    { <<<<"V", "O", "L", "T">>,    <<"V">>>>,
      <<<<"V", "O", "L", "T", " ", "A", "C">>, <<"V", "~">>>>,
      <<<<"C", "U", "R", "R">>,    <<"A">>>>,
      <<<<"C", "U", "R", "R", " ", "A", "C">>, <<"A", "~">>>>,
      <<<<"R", "E", "S">>,     <<"Ω">>>>,
      <<<<"C", "A", "P">>,     <<"F">>>>,
      <<<<"F", "R", "E", "Q">>,    <<"H", "z">>>>,
      <<<<"D", "I", "O", "D">>,    <<"V">>>>,
      <<<<"C", "O", "N", "T">>,    <<"Ω">>>> }

modes_fran ==
    { <<<<"V", "O", "L", "T">>,    <<"T", "e", "n", "s", "i", "o", "n", " ", "c", "o", "n", "t", "i", "n", "u", "e">>>>,
      <<<<"V", "O", "L", "T", " ", "A", "C">>, <<"T", "e", "n", "s", "i", "o", "n", " ", "a", "l", "t", "e", "r", "n", "a", "t", "i", "v", "e">>>>,
      <<<<"C", "U", "R", "R">>,    <<"C", "o", "u", "r", "a", "n", "t", " ", "c", "o", "n", "t", "i", "n", "u">>>>,
      <<<<"C", "U", "R", "R", " ", "A", "C">>, <<"C", "o", "u", "r", "a", "n", "t", " ", "a", "l", "t", "e", "r", "n", "a", "t", "i", "f">>>>,
      <<<<"R", "E", "S">>,     <<"R", "é", "s", "i", "s", "t", "a", "n", "c", "e">>>>,
      <<<<"C", "A", "P">>,     <<"C", "a", "p", "a", "c", "i", "t", "é">>>>,
      <<<<"F", "R", "E", "Q">>,    <<"F", "r", "é", "q", "u", "e", "n", "c", "e">>>>,
      <<<<"D", "I", "O", "D">>,    <<"D", "i", "o", "d", "e">>>>,
      <<<<"C", "O", "N", "T">>,    <<"C", "o", "n", "t", "i", "n", "u", "i", "t", "é">>>> }

get(table, key, default) ==
    IF \E kv \in table : kv[1] = key
    THEN (CHOOSE kv \in table : kv[1] = key)[2]
    ELSE default

(***************************************************************************)
(* What the multimeter may answer to each query within the read timeout,   *)
(* as the bytes on the wire; the empty answer is a timeout.  Two test      *)
(* benches bound the runs: on "endurance" the meter is left alone on one   *)
(* function and range and the run is long, with many clock steps; on       *)
(* "manipulation" the dial is turned, readings overload or are garbled,    *)
(* the link fails, and the run is short.                                   *)
(***************************************************************************)
Essais == {"endurance", "manipulation"}

FuncReplies(essai) ==
    IF essai = "endurance" THEN { <<"\"", "V", "O", "L", "T", "\"", "\r", "\n">> }
    ELSE { <<"\"", "V", "O", "L", "T", "\"", "\r", "\n">>, <<"c", "u", "r", "r", "\r", "\n">>, <<>> }

RangeReplies(essai) ==
    IF essai = "endurance" THEN { <<"5", "\r", "\n">> }
    ELSE { <<"5", "\r", "\n">>, <<"5", "0", "\r", "\n">>, <<>> }

MeasReplies(essai) ==
    IF essai = "endurance" THEN { <<"1", ".", "2", "3", "4", "\r", "\n">> }
    ELSE { <<"1", ".", "2", "3", "4", "\r", "\n">>, <<"-", "2", "5", "E", "-", "1", "\r", "\n">>, <<"1", "E", "+", "9", "\r", "\n">>, <<"1", "E", "+", "9", "V", "\r", "\n">>,
           <<"<ff>", "0", "\n">>, <<>> }

\* seconds the clock may advance between two timer ticks (0: same reading)
Steps(essai) ==
    IF essai = "endurance" THEN {0, 9, 10, 20, 31} ELSE {0, 31}

\* seconds that may pass between the time.time() of line 190 and of line 203
Lags(essai) == IF essai = "endurance" THEN {0} ELSE {0, 1}

\* timer ticks explored
Ticks(essai) ==
    IF essai = "endurance" THEN MaxCyclesEndurance ELSE MaxCyclesManipulation

\* where an exception of the serial port may surface in envoyer_commande
SerialFailures(essai) ==
    IF essai = "endurance" THEN {} ELSE {"write", "read"}

\* str(e) of the exceptions the model raises
Texte(ou) ==
    CASE ou = "write" -> <<"W", "r", "i", "t", "e", " ", "f", "a", "i", "l", "e", "d">>
      [] ou = "read"  -> <<"R", "e", "a", "d", " ", "f", "a", "i", "l", "e", "d">>
      [] OTHER        -> <<"A", "x", "i", "s", " ", "l", "i", "m", "i", "t", "s", " ", "c", "a", "n", "n", "o", "t", " ", "b", "e", " ", "N", "a", "N", " ", "o", "r", " ", "I", "n", "f">>

(***************************************************************************)
(* State.                                                                  *)
(*   essai               the test bench (fixed for a run)                  *)
(*   historique          the deque of samples; a sample is (temps, val),   *)
(*                       and carries the mode and range its cycle read     *)
(*   labels              the three QLabel texts                            *)
(*   now                 the last reading of time.time()                   *)
(*   io                  what the last handler did on the serial port      *)
(*   n_rem, n_loc        how often SYST:REM and SYST:LOC were written      *)
(*   cycle               the handler that ran last, with what it read      *)
(* The matplotlib artists (title, line data, axis limits) are not kept.    *)
(***************************************************************************)
VARIABLES essai, afficher_graphique, ser_open, timer_active, fenetre,
          historique, dernier_mode, dernier_plage, dernier_unite, start_time,
          labels, now, cycles, io, n_rem, n_loc, accepted, cycle

vars == <<essai, afficher_graphique, ser_open, timer_active, fenetre,
          historique, dernier_mode, dernier_plage, dernier_unite, start_time,
          labels, now, cycles, io, n_rem, n_loc, accepted, cycle>>

Written(commande) == [op |-> "write", data |-> commande \o <<"\n">>]

Read == [op |-> "read", data |-> <<>>]

SYST_REM == <<"S", "Y", "S", "T", ":", "R", "E", "M">>

SYST_LOC == <<"S", "Y", "S", "T", ":", "L", "O", "C">>

\* faulty variant: the range asked before the function
Requetes_inversees == << <<"R", "A", "N", "G", "E", "?">>, <<"F", "U", "N", "C", "1", "?">>, <<"M", "E", "A", "S", "1", "?">> >>

\* lines 180-182: the queries of one poll cycle, in the order they are sent
Requetes == << <<"F", "U", "N", "C", "1", "?">>, <<"R", "A", "N", "G", "E", "?">>, <<"M", "E", "A", "S", "1", "?">> >>

\* the record kept of a handler's run: which handler, how it ended ("ok" or
\* where it raised), whether the three answers were read (lu) and what they
\* were, whether it reset the history, whether it took a sample (pris) and
\* at what time, whether ser.close() was called, and, from before the run,
\* the length of the history and how the handler before it ended
Journal(kind, issue, l, reset, pris, temps, ferme) ==
    [kind |-> kind, issue |-> issue,
     lu |-> l.lu, mode |-> l.mode, plage |-> l.plage, val1 |-> l.val1,
     reset |-> reset, pris |-> pris, temps |-> temps, ferme |-> ferme,
     avant |-> Len(historique), precedent |-> cycle.issue]

Rien == [lu |-> FALSE, mode |-> <<>>, plage |-> <<>>, val1 |-> <<>>]

(***************************************************************************)
(* MultimetreApp.__init__, from the opening of the port on.                *)
(***************************************************************************)
Init ==
    /\ essai \in Essais
    /\ afficher_graphique \in BOOLEAN
    /\ ser_open = TRUE
    /\ io = <<Written(SYST_REM)>>
    /\ n_rem = 1
    /\ n_loc = 0
    /\ historique = <<>>
    /\ dernier_mode = <<>>
    /\ dernier_plage = <<>>
    /\ dernier_unite = <<>>
    /\ now = 0
    /\ start_time = 0
    /\ labels = [MODE |-> <<"-">>, PLAGE |-> <<"-">>, MESURE |-> <<"-">>]
    /\ timer_active = TRUE
    /\ fenetre = "open"
    /\ accepted = FALSE
    /\ cycles = 0
    /\ cycle = [kind |-> "init", issue |-> "ok",
                lu |-> FALSE, mode |-> <<>>, plage |-> <<>>, val1 |-> <<>>,
                reset |-> FALSE, pris |-> FALSE, temps |-> 0, ferme |-> FALSE,
                avant |-> 0, precedent |-> "ok"]

(***************************************************************************)
(* update_valeurs, piece by piece.                                         *)
(***************************************************************************)
\* the serial traffic of k complete queries
RECURSIVE Echanges(_)
Echanges(k) ==
    IF k = 0 THEN <<>> ELSE Echanges(k - 1) \o <<Written(Requetes[k]), Read>>

\* lines 180-186 and 201: what the cycle computes from the three answers
Lecture(b1, b2, b3) ==
    LET mode  == strip(lire_reponse(b1), {"\""})
        plage == lire_reponse(b2)
        val1  == lire_reponse(b3)
        unite == get(unites, upper(mode), <<>>)
    IN  [mode |-> mode, plage |-> plage, val1 |-> val1,
         mode_str |-> get(modes_fran, upper(mode), mode),
         unite |-> unite,
         val_formatee |-> formater_mesure(val1, unite),
         val |-> extraire_float(val1)]

LecturesEndurance ==
    { Lecture(b1, b2, b3) : b1 \in FuncReplies("endurance"),
                            b2 \in RangeReplies("endurance"),
                            b3 \in MeasReplies("endurance") }

LecturesManipulation ==
    { Lecture(b1, b2, b3) : b1 \in FuncReplies("manipulation"),
                            b2 \in RangeReplies("manipulation"),
                            b3 \in MeasReplies("manipulation") }

Lectures == IF essai = "endurance" THEN LecturesEndurance ELSE LecturesManipulation

\* faulty variant: a change of range alone goes unnoticed
changement_mode_seul(mode, plage) == mode # dernier_mode

\* line 188
changement(mode, plage) == mode # dernier_mode \/ plage # dernier_plage

\* faulty variant: the history survives the change
historique_garde(h) == h

\* line 189: self.historique.clear()
historique_efface(h) == <<>>

\* faulty variant: samples are taken with the plot disabled too
echantillonne_toujours(val) == val # None

\* line 202
echantillonne(val) == val # None /\ afficher_graphique

\* faulty variants: a sample exactly 60 seconds old is dropped; nothing is
\* ever dropped
RECURSIVE evince_strict(_, _)
evince_strict(h, temps) ==
    IF h # <<>> /\ h[1].temps <= temps - HORIZON
    THEN evince_strict(Tail(h), temps)
    ELSE h

evince_rien(h, temps) == h

\* lines 205-206: popleft while the oldest sample is older than temps - 60
RECURSIVE evince(_, _)
evince(h, temps) ==
    IF h # <<>> /\ h[1].temps < temps - HORIZON
    THEN evince(Tail(h), temps)
    ELSE h

\* faulty variant: the range label keeps its last text
labels_erreur_sans_plage(e) ==
    [MODE |-> <<"E", "r", "r", "e", "u", "r">>, PLAGE |-> labels.PLAGE, MESURE |-> e]

\* lines 219-221: the labels the except clause sets
labels_erreur(e) ==
    [MODE |-> <<"E", "r", "r", "e", "u", "r">>, PLAGE |-> <<"-", "-">>, MESURE |-> e]

\* faulty variant: the except clause empties the history
historique_vide_sur_erreur(h) == <<>>

\* lines 218-221: the except clause does not touch the history
historique_apres_erreur(h) == h

\* an exception of the serial port in the k-th envoyer_commande
Echec(adv, k, ou) ==
    /\ io' = Echanges(k - 1)
             \o (IF ou = "read" THEN <<Written(Requetes[k])>> ELSE <<>>)
    /\ labels' = labels_erreur(Texte(ou))
    /\ historique' = historique_apres_erreur(historique)
    /\ now' = now + adv
    /\ cycle' = Journal("poll", ou, Rien, FALSE, FALSE, 0, FALSE)
    /\ UNCHANGED <<dernier_mode, dernier_plage, dernier_unite, start_time>>

\* the three queries answered: lines 188-217, and 218-221 when the plot raises
Acquis(adv, l, lag, plot_fails) ==
    LET change == changement(l.mode, l.plage)
        t190   == now + adv
        debut  == IF change THEN t190 ELSE start_time
        h1     == IF change THEN historique_efface(historique) ELSE historique
        prend  == echantillonne(l.val)
        t203   == IF change THEN t190 + lag ELSE t190
        temps  == t203 - debut
        h2     == Append(h1, [temps |-> temps, val |-> l.val,
                              mode |-> l.mode, plage |-> l.plage])
        h3     == evince(h2, temps)
        leve   == prend /\ h3 # <<>> /\ plot_fails
    IN  /\ (prend /\ change) \/ lag = 0
        /\ prend \/ ~plot_fails
        /\ io' = Echanges(3)
        /\ start_time' = debut
        /\ dernier_mode' = (IF change THEN l.mode ELSE dernier_mode)
        /\ dernier_plage' = (IF change THEN l.plage ELSE dernier_plage)
        /\ dernier_unite' = (IF change THEN l.unite ELSE dernier_unite)
        /\ historique' = (IF ~prend THEN h1
                          ELSE IF leve THEN historique_apres_erreur(h3)
                          ELSE h3)
        /\ labels' = (IF leve THEN labels_erreur(Texte("plot"))
                      ELSE [MODE |-> l.mode_str, PLAGE |-> l.plage,
                            MESURE |-> l.val_formatee])
        /\ now' = (IF prend THEN t203 ELSE t190)
        /\ cycle' = Journal("poll", IF leve THEN "plot" ELSE "ok",
                            [lu |-> TRUE, mode |-> l.mode, plage |-> l.plage,
                             val1 |-> l.val1],
                            change, prend, IF prend THEN temps ELSE 0, FALSE)

\* whether the plotting calls of lines 209-217 raise
PlotFailures == IF essai = "endurance" THEN {FALSE} ELSE BOOLEAN

update_valeurs ==
    /\ timer_active
    /\ cycles < Ticks(essai)
    /\ cycles' = cycles + 1
    /\ \E adv \in Steps(essai) :
        \/ \E k \in 1..Len(Requetes), ou \in SerialFailures(essai) :
                Echec(adv, k, ou)
        \/ \E l \in Lectures, lag \in Lags(essai), plot_fails \in PlotFailures :
                Acquis(adv, l, lag, plot_fails)
    /\ UNCHANGED <<essai, afficher_graphique, ser_open, timer_active, fenetre,
                   n_rem, n_loc, accepted>>

(***************************************************************************)
(* closeEvent.                                                             *)
(***************************************************************************)
\* line 224: self.timer.stop()
timer_stop == FALSE

closeEvent ==
    /\ fenetre = "open"
    /\ timer_active' = timer_stop
    /\ \E write_fails \in BOOLEAN, close_fails \in BOOLEAN :
        /\ write_fails => ~close_fails
        /\ io' = (IF write_fails THEN <<>> ELSE <<Written(SYST_LOC)>>)
        /\ n_loc' = (IF write_fails THEN n_loc ELSE n_loc + 1)
        /\ ser_open' = (IF write_fails \/ close_fails THEN ser_open ELSE FALSE)
        /\ cycle' = Journal("close",
                            IF write_fails THEN "write"
                            ELSE IF close_fails THEN "close" ELSE "ok",
                            Rien, FALSE, FALSE, 0, ~write_fails)
    /\ accepted' = TRUE
    /\ fenetre' = "closed"
    /\ UNCHANGED <<essai, afficher_graphique, historique, dernier_mode,
                   dernier_plage, dernier_unite, start_time, labels, now,
                   cycles, n_rem>>

Next == update_valeurs \/ closeEvent

Spec == Init /\ [][Next]_vars

(***************************************************************************)
(* Properties.                                                             *)
(***************************************************************************)
\* a step of update_valeurs (the handler ran once more)
Polled == cycles' = cycles + 1

\* the three queries of the last run were answered
Answered == cycle.kind = "poll" /\ cycle.issue \in {"ok", "plot"}

Last(h) == h[Len(h)]

Times(h) == [i \in 1..Len(h) |-> h[i].temps]

ERREUR == <<"E", "r", "r", "e", "u", "r">>

PLACEHOLDER == <<"-", "-">>

\* C1: every sample of the history is at most 60 seconds older than the
\* sample appended last, in every reachable state.
C1_WindowBound ==
    \A i \in 1..Len(historique) :
        historique[i].temps >= Last(historique).temps - 60

\* C1 witness: a history of three samples whose first sample was evicted.
C1_Witness ==
    /\ Len(historique) >= 3
    /\ historique[1].temps > 0
    /\ Last(historique).temps - historique[1].temps > 31

\* C2: a poll cycle that reads a mode or a range other than the stored one
\* ends with at most one sample in the history, the one it took, and with
\* the stored mode and range those it read; the stored unit is always the
\* unit of the stored mode.
C2_ResetOnChange ==
    /\ [] (dernier_unite = get(unites, upper(dernier_mode), <<>>))
    /\ [][ ( /\ Polled
             /\ cycle'.issue \in {"ok", "plot"}
             /\ (cycle'.mode # dernier_mode \/ cycle'.plage # dernier_plage) )
           => ( /\ Len(historique') <= 1
                /\ Len(historique') = 1 =>
                       /\ cycle'.pris
                       /\ historique'[1].temps = cycle'.temps
                       /\ historique'[1].temps = now' - start_time'
                       /\ historique'[1].mode = cycle'.mode
                       /\ historique'[1].plage = cycle'.plage
                /\ dernier_mode' = cycle'.mode
                /\ dernier_plage' = cycle'.plage ) ]_vars

\* C2 witness: a populated history was replaced by the one sample of a
\* cycle that read another range.
C2_Witness ==
    /\ Answered
    /\ cycle.reset
    /\ cycle.avant >= 1
    /\ Len(historique) = 1
    /\ dernier_plage = <<"5", "0">>

\* C3: a poll cycle whose measurement begins with 1E+9 shows Surcharge and
\* appends no sample, whatever the mode.
C3_Overload ==
    [][ ( /\ Polled
          /\ cycle'.lu
          /\ Len(cycle'.val1) >= 4
          /\ SubSeq(cycle'.val1, 1, 4) = <<"1", "E", "+", "9">> )
        => ( /\ labels'.MESURE = <<"S", "u", "r", "c", "h", "a", "r", "g", "e">>
             /\ historique' \in {historique, <<>>}
             /\ ~cycle'.pris ) ]_vars

\* C3 witness: an overload read in current mode while the plot holds samples.
C3_Witness ==
    /\ afficher_graphique
    /\ cycle.kind = "poll"
    /\ cycle.val1 = <<"1", "E", "+", "9">>
    /\ cycle.mode = <<"c", "u", "r", "r">>
    /\ labels.MESURE = <<"S", "u", "r", "c", "h", "a", "r", "g", "e">>
    /\ historique = <<>>
    /\ cycle.avant >= 1

\* C4, as claimed: a poll cycle that raises, wherever it raises, ends with
\* every sample the history held when it began.
C4_AsClaimed ==
    [][ (Polled /\ cycle'.issue # "ok")
        => ( /\ \A i \in 1..Len(historique) :
                    \E j \in 1..Len(historique') : historique'[j] = historique[i]
             /\ timer_active' ) ]_vars

\* C4, amended: a poll cycle that raises in one of its three serial queries
\* leaves the history as it was, and a cycle that raises while the plot is
\* redrawn keeps its own sample and adds no other; in both the timer stays
\* armed and the window open.
C4_FailureKeepsHistory ==
    [][ (Polled /\ cycle'.issue # "ok")
        => ( /\ cycle'.issue \in {"write", "read"} => historique' = historique
             /\ cycle'.issue = "plot" =>
                    /\ historique' # <<>>
                    /\ Last(historique').temps = cycle'.temps
                    /\ \A j \in 1..(Len(historique') - 1) :
                          \E i \in 1..Len(historique) :
                              historique[i] = historique'[j]
             /\ timer_active'
             /\ fenetre' = "open" ) ]_vars

\* C4 witness: a serial failure with a sample in the history.
C4_Witness ==
    /\ cycle.kind = "poll"
    /\ cycle.issue = "read"
    /\ Len(historique) >= 1
    /\ timer_active

\* C5: after a cycle that raised the labels read Erreur, -- and the
\* exception's text, and the timer is armed; after a cycle that did not, they
\* read that cycle's mode name, range and formatted measurement and the cycle
\* sent its three queries, whatever the cycle before it did.
C5_ErrorShownNotLatched ==
    /\ (cycle.kind = "poll" /\ cycle.issue # "ok") =>
            /\ labels = [MODE |-> ERREUR, PLAGE |-> PLACEHOLDER,
                         MESURE |-> Texte(cycle.issue)]
            /\ timer_active
    /\ (cycle.kind = "poll" /\ cycle.issue = "ok") =>
            /\ labels = [MODE |-> get(modes_fran, upper(cycle.mode), cycle.mode),
                         PLAGE |-> cycle.plage,
                         MESURE |-> formater_mesure(cycle.val1,
                                        get(unites, upper(cycle.mode), <<>>))]
            /\ Len(io) = 6
            /\ labels.MODE # ERREUR

\* C5 witness: a cycle that raised, then a cycle that shows a reading.
C5_Witness ==
    /\ cycle.kind = "poll"
    /\ cycle.issue = "ok"
    /\ cycle.precedent \in {"write", "read", "plot"}
    /\ labels = [MODE |-> <<"T", "e", "n", "s", "i", "o", "n", " ", "c", "o", "n", "t", "i", "n", "u", "e">>, PLAGE |-> <<"5">>,
                 MESURE |-> <<"1", ".", "2", "3", "4", " ", "V">>]

\* C6, as claimed: shutdown tries SYST:LOC, then closes the port whether or
\* not that write failed, and accepts the event.
C6_AsClaimed ==
    cycle.kind = "close" => (cycle.ferme /\ accepted)

\* C7, as claimed: a cycle that does not raise and reads a number appends the
\* sample as the newest entry, the plot enabled or not.
C7_AsClaimed ==
    (cycle.kind = "poll" /\ cycle.issue = "ok" /\ cycle.lu
        /\ float(cycle.val1) # ValueError
        /\ ~startswith(cycle.val1, OVERLOAD))
    => ( /\ historique # <<>>
         /\ Last(historique).val = float(cycle.val1)
         /\ Last(historique).temps = now - start_time )

\* C7, amended: with the plot enabled, a cycle that does not raise and reads
\* a number appends (seconds since the last reset, value) behind the samples
\* it keeps; with the plot disabled the history stays empty.
C7_SampleRecorded ==
    [][ (Polled /\ cycle'.issue = "ok" /\ cycle'.lu
            /\ float(cycle'.val1) # ValueError
            /\ ~(Len(cycle'.val1) >= 4 /\ SubSeq(cycle'.val1, 1, 4) = <<"1", "E", "+", "9">>))
        => IF afficher_graphique
           THEN /\ historique' # <<>>
                /\ Last(historique').val = float(cycle'.val1)
                /\ Last(historique').temps = now' - start_time'
                /\ \E k \in 0..Len(historique) :
                      SubSeq(historique', 1, Len(historique') - 1)
                          = SubSeq(historique, k + 1, Len(historique))
           ELSE historique' = <<>> /\ historique = <<>> ]_vars

\* C7 witness: -2.5 appended behind an earlier sample.
C7_Witness ==
    /\ afficher_graphique
    /\ cycle.kind = "poll" /\ cycle.issue = "ok"
    /\ Len(historique) = 2
    /\ Last(historique).val = [m |-> -25, e |-> -1]
    /\ Last(historique).temps = 31

FullCycle ==
    << [op |-> "write", data |-> <<"F", "U", "N", "C", "1", "?", "\n">>], [op |-> "read", data |-> <<>>],
       [op |-> "write", data |-> <<"R", "A", "N", "G", "E", "?", "\n">>], [op |-> "read", data |-> <<>>],
       [op |-> "write", data |-> <<"M", "E", "A", "S", "1", "?", "\n">>], [op |-> "read", data |-> <<>>] >>

\* C8: SYST:REM is written once, by the constructor, before any query; a
\* poll cycle's traffic is a prefix of write FUNC1?, read, write RANGE?, read,
\* write MEAS1?, read; SYST:LOC is written at most once, by closeEvent with
\* the timer stopped, and nothing is written after closeEvent.
C8_WireOrder ==
    /\ [] ( /\ n_rem = 1
            /\ n_loc <= 1
            /\ cycle.kind = "init" =>
                    io = <<[op |-> "write", data |-> <<"S", "Y", "S", "T", ":", "R", "E", "M", "\n">>]>>
            /\ cycle.kind = "poll" =>
                    \E n \in 0..6 : io = SubSeq(FullCycle, 1, n)
            /\ cycle.kind = "close" =>
                    /\ ~timer_active
                    /\ io = IF n_loc = 1
                            THEN <<[op |-> "write", data |-> <<"S", "Y", "S", "T", ":", "L", "O", "C", "\n">>]>>
                            ELSE <<>>
            /\ n_loc = 1 => cycle.kind = "close" )
    /\ [][ cycle.kind = "close" => UNCHANGED <<io, n_loc, n_rem, cycle>> ]_vars

\* C8 witness: SYST:LOC written after a cycle that got its three answers.
C8_Witness ==
    /\ cycle.kind = "close"
    /\ n_loc = 1
    /\ cycle.precedent = "ok"
    /\ cycles >= 2
    /\ labels.MODE = <<"C", "o", "u", "r", "a", "n", "t", " ", "c", "o", "n", "t", "i", "n", "u">>

\* C9: a sample appended at time t leaves, of the samples held before it,
\* exactly those with time >= t - 60, in their order, followed by itself.
C9_EvictionExact ==
    [][ (Polled /\ cycle'.pris)
        => LET t == cycle'.temps
               held == IF cycle'.mode # dernier_mode \/ cycle'.plage # dernier_plage
                       THEN <<>> ELSE historique
               Kept(s) == s.temps >= t - 60
           IN  /\ historique' # <<>>
               /\ Last(historique').temps = t
               /\ SubSeq(historique', 1, Len(historique') - 1)
                     = SelectSeq(held, Kept) ]_vars

\* C9 witness: the samples at 0, 10, 30, 61 and 70 seconds leave 10, 30, 61
\* and 70; the sample taken at 10 is exactly 60 seconds old and is kept.
C9_Witness == Times(historique) = <<10, 30, 61, 70>>

\* C10: every sample of the history was read under the stored mode and range.
C10_OneSetting ==
    \A i \in 1..Len(historique) :
        /\ historique[i].mode = dernier_mode
        /\ historique[i].plage = dernier_plage

\* C10 witness: after a change of mode and a query that timed out, two
\* samples under the new setting.
C10_Witness ==
    /\ essai = "manipulation"
    /\ Len(historique) >= 1
    /\ dernier_mode = <<"c", "u", "r", "r">>
    /\ dernier_plage = <<>>
    /\ cycle.reset
    /\ cycle.avant >= 1

====
